---- MODULE Spec2Model ----
(***************************************************************************)
(* Model of the pair-trading backtest of src/backtesting.py (run_backtest) *)
(* fed by the signal table of src/signals.py (generate_signals), and of the *)
(* hedge-ratio filter of src/kalman_filter.py (KalmanFilterReg).           *)
(*                                                                         *)
(* Arithmetic.  The code computes in Python floats; the model computes the *)
(* same expressions exactly.  The commission is the rational               *)
(* commission / CommDen, and every cash amount (capital, entry_net,        *)
(* exit_net, profit, P&L, portfolio value) is held multiplied by CommDen,  *)
(* so that  price * n_shares * (1 + commission)  becomes the integer       *)
(* price * n_shares * (CommDen + commission).  Normalized spreads are held *)
(* in hundredths (1.5 is 150, 0.05 is 5).                                  *)
(*                                                                         *)
(* The filter's estimates are held as terms, not numbers: the covariance P *)
(* is the sequence of the operations applied to its initial value, and the *)
(* state x is the sequence of the updates applied to its initial value,    *)
(* each with the observation and the covariance it was computed from.  Two *)
(* estimates are equal exactly when they were computed the same way.       *)
(***************************************************************************)
EXTENDS Integers, Sequences, FiniteSets

VARIABLES
    source,            \* where signals_df comes from (see SignalRows)
    initial_capital,   \* run_backtest argument
    n_shares,          \* run_backtest argument
    commission,        \* run_backtest argument, numerator over CommDen
    margin_cap,        \* run_backtest argument
    capital,           \* local of run_backtest, times CommDen
    portfolio_values,  \* local list, each value times CommDen
    trade_log,         \* local list of closed trades
    active_trades,     \* local list of open trades
    prev_signal,       \* local
    pc,                \* "loop" while in the for loop, "done" after the return
    result,            \* the returned summary (final_capital, total_trades, win_rate)
    last,              \* history: the inputs and the pre-state of the latest iteration
    x_series,          \* run_kalman_filter argument
    y_series,          \* run_kalman_filter argument
    kf_x,              \* self.x, as a term
    kf_P,              \* self.P, as a term
    kf_i,              \* pairs zip has yielded so far
    kf_pc,             \* 0 at the head of the for loop, k before statement k of its body
    hedge_ratios,      \* local list of run_kalman_filter
    kalman_preds,      \* local list of run_kalman_filter
    kf_result,         \* what run_kalman_filter returned
    kf_calls           \* history: the calls of predict and update, in order

vars == <<source, initial_capital, n_shares, commission, margin_cap, capital,
          portfolio_values, trade_log, active_trades, prev_signal, pc, result, last,
          x_series, y_series, kf_x, kf_P, kf_i, kf_pc, hedge_ratios, kalman_preds,
          kf_result, kf_calls>>

btvars == <<source, initial_capital, n_shares, commission, margin_cap, capital,
            portfolio_values, trade_log, active_trades, prev_signal, pc, result, last>>

kfvars == <<x_series, y_series, kf_x, kf_P, kf_i, kf_pc, hedge_ratios, kalman_preds,
            kf_result, kf_calls>>

params == <<source, initial_capital, n_shares, commission, margin_cap>>

----------------------------------------------------------------------------
(* Bounds of the model *)

\* rows of data the loop may iterate over when signals_df holds only signals
MaxSteps == 4
\* rows of data when signals_df also carries the normalized spread
MaxSpreadSteps == 3
\* longest series handed to run_kalman_filter
MaxObs == 3
\* the values an observation can take
Observations == {1, 2}

\* The scenario of the specification: four rows of prices and signals
ScenarioDep == <<100, 105, 110, 95>>
ScenarioInd == <<50, 51, 52, 48>>
ScenarioSignal == <<0, 1, 1, 0>>

\* len(data)
StepBound ==
    IF source = "signal" THEN MaxSteps
    ELSE IF source = "scenario" THEN Len(ScenarioDep)
    ELSE MaxSpreadSteps

\* denominator of the commission rate: commission = 1 means 1/100 = 0.01
CommDen == 100

\* (dependent price, independent price) of a row of data
PriceRows == {<<1, 3>>, <<3, 1>>, <<2, 2>>}

\* the rows data can hold at a timestamp
PriceRowsAt(src, timestamp) ==
    IF src = "scenario"
    THEN {<<ScenarioDep[timestamp], ScenarioInd[timestamp]>>}
    ELSE PriceRows

Signals == {-1, 0, 1}
Capitals == {2, 5}
Shares == {1, 2}
Commissions == {0, 1}
MarginCaps == {0, 2}

\* normalized spreads, in hundredths
SpreadValues == {-200, 0, 100, 200}
SuppliedSpreads == {0, 200}

Abs(x) == IF x < 0 THEN -x ELSE x

----------------------------------------------------------------------------
(* src/signals.py *)

\* thresholds of generate_signals, in hundredths
EntryThreshold == 150
CloseThreshold == 5

\* generate_signals, lines 22-25, for one element of normalized_spread
GenSignal(ns) ==
    LET s0 == 0
        s1 == IF ns < -EntryThreshold THEN 1 ELSE s0
        s2 == IF ns > EntryThreshold THEN -1 ELSE s1
        s3 == IF Abs(ns) < CloseThreshold THEN 0 ELSE s2
    IN  s3

\* The row signals_df holds for one timestamp.  present: the timestamp is in
\* sig_series.index; has_ns: the row carries a 'Normalized Spread' value.
\*   "signal":    a table of which only the 'Signal' column is given, any value
\*                of {-1,0,1}, or the timestamp is absent from the index
\*   "generated": the table generate_signals returns
\*   "supplied":  a table built by the caller, both columns free
\*   "scenario":  the scenario's signals
SignalRows(src, timestamp) ==
    IF src = "scenario"
    THEN {[present |-> TRUE, sig |-> ScenarioSignal[timestamp],
           has_ns |-> FALSE, ns |-> 0]}
    ELSE IF src = "signal"
    THEN {[present |-> TRUE, sig |-> s, has_ns |-> FALSE, ns |-> 0] : s \in Signals}
         \cup {[present |-> FALSE, sig |-> 0, has_ns |-> FALSE, ns |-> 0]}
    ELSE IF src = "generated"
    THEN {[present |-> TRUE, sig |-> GenSignal(x), has_ns |-> TRUE, ns |-> x] :
             x \in SpreadValues}
    ELSE {[present |-> TRUE, sig |-> s, has_ns |-> TRUE, ns |-> x] :
             x \in SuppliedSpreads, s \in Signals}

----------------------------------------------------------------------------
(* src/kalman_filter.py *)

Min(a, b) == IF a <= b THEN a ELSE b

SeqsUpTo(S, n) == UNION {[1..k -> S] : k \in 0..n}

NoKfResult == [returned |-> FALSE, hedge_ratios |-> <<>>, kalman_preds |-> <<>>]

\* no filter is running
KfIdle ==
    /\ x_series = <<>>
    /\ y_series = <<>>
    /\ kf_x = <<>>
    /\ kf_P = <<>>
    /\ kf_i = 0
    /\ kf_pc = 0
    /\ hedge_ratios = <<>>
    /\ kalman_preds = <<>>
    /\ kf_result = NoKfResult
    /\ kf_calls = <<>>

\* line 14: P = A P A' + Q
PredictP(P) == Append(P, [op |-> "predict", x |-> 0])

\* lines 18-21: P = (I - K C) P, with C = [1, x] and K from P
UpdateP(P, x) == Append(P, [op |-> "update", x |-> x])

\* lines 18-22: x = x + K (y - C x), with C = [1, x] and K from P
UpdateX(est, P, x, y) == Append(est, [x |-> x, y |-> y, P |-> P])

\* line 32: self.x[1]
Slope(est) == [component |-> 1, of |-> est]

\* line 33: self.x[0] + self.x[1] * x
Fitted(est, x) == [of |-> est, x |-> x]

\* the body of the loop with the update before the predict
KfBody_UpdateFirst == <<"update", "predict", "record">>

\* lines 30-33: the statements of the loop's body, in order
KfBody == <<"predict", "update", "record">>

\* the position after statement kf_pc of the body
KfAdvance == IF kf_pc = Len(KfBody) THEN 0 ELSE kf_pc + 1

\* the calls made so far, with the one of fn on the current pair added
KfCalled(fn) ==
    Append(kf_calls, [fn |-> fn, pair |-> kf_i,
                      x |-> x_series[kf_i], y |-> y_series[kf_i]])

\* line 29: zip yields the next pair
KfFetch ==
    /\ ~kf_result.returned
    /\ kf_pc = 0
    /\ kf_i < Min(Len(x_series), Len(y_series))
    /\ kf_i' = kf_i + 1
    /\ kf_pc' = 1
    /\ UNCHANGED <<x_series, y_series, kf_x, kf_P, hedge_ratios, kalman_preds,
                   kf_result, kf_calls>>

\* line 30 and lines 12-14
KfPredict ==
    /\ kf_pc > 0
    /\ KfBody[kf_pc] = "predict"
    /\ kf_P' = PredictP(kf_P)
    /\ kf_calls' = KfCalled("predict")
    /\ kf_pc' = KfAdvance
    /\ UNCHANGED <<x_series, y_series, kf_x, kf_i, hedge_ratios, kalman_preds,
                   kf_result>>

\* line 31 and lines 16-22
KfUpdate ==
    /\ kf_pc > 0
    /\ KfBody[kf_pc] = "update"
    /\ kf_x' = UpdateX(kf_x, kf_P, x_series[kf_i], y_series[kf_i])
    /\ kf_P' = UpdateP(kf_P, x_series[kf_i])
    /\ kf_calls' = KfCalled("update")
    /\ kf_pc' = KfAdvance
    /\ UNCHANGED <<x_series, y_series, kf_i, hedge_ratios, kalman_preds, kf_result>>

\* lines 32-33
KfRecord ==
    /\ kf_pc > 0
    /\ KfBody[kf_pc] = "record"
    /\ hedge_ratios' = Append(hedge_ratios, Slope(kf_x))
    /\ kalman_preds' = Append(kalman_preds, Fitted(kf_x, x_series[kf_i]))
    /\ kf_pc' = KfAdvance
    /\ UNCHANGED <<x_series, y_series, kf_x, kf_P, kf_i, kf_result, kf_calls>>

\* line 35: zip is exhausted
KfReturn ==
    /\ ~kf_result.returned
    /\ kf_pc = 0
    /\ kf_i >= Min(Len(x_series), Len(y_series))
    /\ kf_result' = [returned |-> TRUE, hedge_ratios |-> hedge_ratios,
                     kalman_preds |-> kalman_preds]
    /\ UNCHANGED <<x_series, y_series, kf_x, kf_P, kf_i, kf_pc, hedge_ratios,
                   kalman_preds, kf_calls>>

----------------------------------------------------------------------------
(* src/backtesting.py *)

\* line 64
CurrentSignal(row) == IF row.present THEN row.sig ELSE 0

\* EntryNet with the short leg's proceeds taken at (1 + commission)
EntryNet_ShortLegCommission(direction, dep_price, ind_price) ==
    IF direction = 1
    THEN dep_price * n_shares * (CommDen + commission)
         - ind_price * n_shares * (CommDen + commission)
    ELSE ind_price * n_shares * (CommDen + commission)
         - dep_price * n_shares * (CommDen + commission)

\* lines 114-125: net cash outflow of an entry in the given direction
EntryNet(direction, dep_price, ind_price) ==
    IF direction = 1
    THEN dep_price * n_shares * (CommDen + commission)
         - ind_price * n_shares * (CommDen - commission)
    ELSE ind_price * n_shares * (CommDen + commission)
         - dep_price * n_shares * (CommDen - commission)

\* ExitNet with the covered leg's cost taken at (1 - commission)
ExitNet_CoverLegCommission(trade, dep_exit, ind_exit) ==
    IF trade.direction = 1
    THEN dep_exit * n_shares * (CommDen - commission)
         - ind_exit * n_shares * (CommDen - commission)
    ELSE ind_exit * n_shares * (CommDen - commission)
         - dep_exit * n_shares * (CommDen - commission)

\* lines 76-99: net cash inflow of the exit of a trade
ExitNet(trade, dep_exit, ind_exit) ==
    IF trade.direction = 1
    THEN dep_exit * n_shares * (CommDen - commission)
         - ind_exit * n_shares * (CommDen + commission)
    ELSE ind_exit * n_shares * (CommDen - commission)
         - dep_exit * n_shares * (CommDen + commission)

\* ExitCond that fires on any departure from the previous signal
ExitCond_AnyDeparture(prev, cur, active) == prev # 0 /\ cur # prev /\ active # <<>>

\* ExitCond with the test of prev_signal inverted
ExitCond_PrevZero(prev, cur, active) == prev = 0 /\ cur = 0 /\ active # <<>>

\* line 70
ExitCond(prev, cur, active) == prev # 0 /\ cur = 0 /\ active # <<>>

\* EntryCond without the test of prev_signal
EntryCond_AnyNonzero(prev, cur) == cur # 0

\* line 113
EntryCond(prev, cur) == prev = 0 /\ cur # 0

\* EntryGuard without the margin test
EntryGuard_NoMargin(cap, entry_net) == cap >= entry_net

\* EntryGuard with the cost test strict
EntryGuard_StrictCost(cap, entry_net) ==
    cap > entry_net /\ cap > margin_cap * CommDen

\* EntryGuard with the margin test not strict
EntryGuard_MarginNotStrict(cap, entry_net) ==
    cap >= entry_net /\ cap >= margin_cap * CommDen

\* line 127
EntryGuard(cap, entry_net) == cap >= entry_net /\ cap > margin_cap * CommDen

\* lines 129-135
NewTrade(timestamp, dep_price, ind_price, entry_net, direction) ==
    [entry_time |-> timestamp, dep_entry |-> dep_price, ind_entry |-> ind_price,
     entry_net |-> entry_net, direction |-> direction]

\* lines 102-108: the trade as it is appended to trade_log
ClosedTrade(trade, timestamp, dep_exit, ind_exit) ==
    [entry_time |-> trade.entry_time, dep_entry |-> trade.dep_entry,
     ind_entry |-> trade.ind_entry, entry_net |-> trade.entry_net,
     direction |-> trade.direction,
     exit_time |-> timestamp, dep_exit |-> dep_exit, ind_exit |-> ind_exit,
     profit |-> ExitNet(trade, dep_exit, ind_exit) - trade.entry_net]

\* CloseAll that appends the closed trade to the log twice
CloseAll_LoggedTwice(active, timestamp, dep_exit, ind_exit) ==
    IF active = <<>> THEN <<>>
    ELSE <<ClosedTrade(Head(active), timestamp, dep_exit, ind_exit),
           ClosedTrade(Head(active), timestamp, dep_exit, ind_exit)>>

\* lines 71-109: the trades appended to trade_log by the exit loop
RECURSIVE CloseAll(_, _, _, _)
CloseAll(active, timestamp, dep_exit, ind_exit) ==
    IF active = <<>> THEN <<>>
    ELSE <<ClosedTrade(Head(active), timestamp, dep_exit, ind_exit)>>
         \o CloseAll(Tail(active), timestamp, dep_exit, ind_exit)

\* ExitCash that adds the trade's profit instead of its exit_net
RECURSIVE ExitCash_Profit(_, _, _)
ExitCash_Profit(active, dep_exit, ind_exit) ==
    IF active = <<>> THEN 0
    ELSE ExitNet(Head(active), dep_exit, ind_exit) - Head(active).entry_net
         + ExitCash_Profit(Tail(active), dep_exit, ind_exit)

\* line 103, over the exit loop: the cash added to capital
RECURSIVE ExitCash(_, _, _)
ExitCash(active, dep_exit, ind_exit) ==
    IF active = <<>> THEN 0
    ELSE ExitNet(Head(active), dep_exit, ind_exit)
         + ExitCash(Tail(active), dep_exit, ind_exit)

\* TradePnl with the short trade valued like a long one
TradePnl_ShortAsLong(trade, dep_price, ind_price) ==
    ((dep_price - trade.dep_entry) * n_shares
     + (trade.ind_entry - ind_price) * n_shares) * CommDen

\* lines 141-145
TradePnl(trade, dep_price, ind_price) ==
    IF trade.direction = 1
    THEN ((dep_price - trade.dep_entry) * n_shares
          + (trade.ind_entry - ind_price) * n_shares) * CommDen
    ELSE ((trade.dep_entry - dep_price) * n_shares
          + (ind_price - trade.ind_entry) * n_shares) * CommDen

\* lines 139-146
RECURSIVE UnrealizedPnl(_, _, _)
UnrealizedPnl(active, dep_price, ind_price) ==
    IF active = <<>> THEN 0
    ELSE TradePnl(Head(active), dep_price, ind_price)
         + UnrealizedPnl(Tail(active), dep_price, ind_price)

\* Wins that counts a trade of profit 0 as a win
RECURSIVE Wins_NotLosing(_)
Wins_NotLosing(log) ==
    IF log = <<>> THEN 0
    ELSE (IF Head(log).profit >= 0 THEN 1 ELSE 0) + Wins_NotLosing(Tail(log))

\* line 154: the number of winning trades
RECURSIVE Wins(_)
Wins(log) ==
    IF log = <<>> THEN 0
    ELSE (IF Head(log).profit > 0 THEN 1 ELSE 0) + Wins(Tail(log))

\* line 154: win_rate as the fraction num / den
WinRate(log) ==
    IF Len(log) > 0 THEN [num |-> Wins(log) * 100, den |-> Len(log)]
    ELSE [num |-> 0, den |-> 1]

\* line 151
FinalCapital(values, cap) ==
    IF values # <<>> THEN values[Len(values)] ELSE cap

NoStep ==
    [stepped |-> FALSE, timestamp |-> 0, dep |-> 0, ind |-> 0, sig |-> 0,
     nominal |-> 0, has_ns |-> FALSE, ns |-> 0, prev |-> 0, cap0 |-> 0, cap_entry |-> 0,
     act0 |-> <<>>, nlog0 |-> 0]

NoResult == [returned |-> FALSE, final_capital |-> 0, total_trades |-> 0,
             win_rate |-> [num |-> 0, den |-> 1]]

\* lines 51-61, with the arguments drawn from the given sets
InitWith(sources, capitals, shares, commissions, margins) ==
    /\ source \in sources
    /\ initial_capital \in capitals
    /\ n_shares \in shares
    /\ commission \in commissions
    /\ margin_cap \in margins
    /\ capital = initial_capital * CommDen
    /\ portfolio_values = <<>>
    /\ trade_log = <<>>
    /\ active_trades = <<>>
    /\ prev_signal = 0
    /\ pc = "loop"
    /\ result = NoResult
    /\ last = NoStep
    /\ KfIdle

Init ==
    \/ InitWith({"signal"}, Capitals, Shares, Commissions, MarginCaps)
    \/ InitWith({"scenario"}, {1000}, {10}, Commissions, {0})

InitSpread == InitWith({"generated", "supplied"}, {5}, {1}, Commissions, {0})

\* lines 63-148: one iteration of the loop, on the row (dep_price, ind_price) of
\* data and the row of signals_df with the same timestamp
Iterate(dep_price, ind_price, row) ==
    LET timestamp == Len(portfolio_values) + 1
        current_signal == CurrentSignal(row)
        exiting == ExitCond(prev_signal, current_signal, active_trades)
        cap1 == IF exiting
                THEN capital + ExitCash(active_trades, dep_price, ind_price)
                ELSE capital
        log1 == IF exiting
                THEN trade_log \o CloseAll(active_trades, timestamp, dep_price, ind_price)
                ELSE trade_log
        act1 == IF exiting THEN <<>> ELSE active_trades
        entering == EntryCond(prev_signal, current_signal)
        entry_net == EntryNet(current_signal, dep_price, ind_price)
        opening == entering /\ EntryGuard(cap1, entry_net)
        cap2 == IF opening THEN cap1 - entry_net ELSE cap1
        act2 == IF opening
                THEN Append(act1, NewTrade(timestamp, dep_price, ind_price,
                                           entry_net, current_signal))
                ELSE act1
    IN  /\ capital' = cap2
        /\ trade_log' = log1
        /\ active_trades' = act2
        /\ portfolio_values' =
               Append(portfolio_values, cap2 + UnrealizedPnl(act2, dep_price, ind_price))
        /\ prev_signal' = current_signal
        /\ last' = [stepped |-> TRUE, timestamp |-> timestamp,
                    dep |-> dep_price, ind |-> ind_price,
                    sig |-> current_signal, nominal |-> row.sig,
                    has_ns |-> row.has_ns, ns |-> row.ns, prev |-> prev_signal,
                    cap0 |-> capital, cap_entry |-> cap1,
                    act0 |-> active_trades, nlog0 |-> Len(trade_log)]

Step ==
    /\ pc = "loop"
    /\ Len(portfolio_values) < StepBound
    /\ \E p \in PriceRowsAt(source, Len(portfolio_values) + 1),
          row \in SignalRows(source, Len(portfolio_values) + 1) :
           Iterate(p[1], p[2], row)
    /\ UNCHANGED <<params, pc, result>>
    /\ UNCHANGED kfvars

\* lines 150-165: data is exhausted
Return ==
    /\ pc = "loop"
    /\ pc' = "done"
    /\ result' = [returned |-> TRUE,
                  final_capital |-> FinalCapital(portfolio_values, capital),
                  total_trades |-> Len(trade_log),
                  win_rate |-> WinRate(trade_log)]
    /\ UNCHANGED <<params, capital, portfolio_values, trade_log, active_trades,
                   prev_signal, last>>
    /\ UNCHANGED kfvars

Next == Step \/ Return

Spec == Init /\ [][Next]_vars

SpecSpread == InitSpread /\ [][Next]_vars

\* lines 4-10 and 26-27 of kalman_filter.py: a fresh filter, and the series
\* handed to run_kalman_filter; no backtest is running
InitKalman ==
    /\ x_series \in SeqsUpTo(Observations, MaxObs)
    /\ y_series \in SeqsUpTo(Observations, MaxObs)
    /\ kf_x = <<>>
    /\ kf_P = <<>>
    /\ kf_i = 0
    /\ kf_pc = 0
    /\ hedge_ratios = <<>>
    /\ kalman_preds = <<>>
    /\ kf_result = NoKfResult
    /\ kf_calls = <<>>
    /\ source = "none"
    /\ initial_capital = 0
    /\ n_shares = 0
    /\ commission = 0
    /\ margin_cap = 0
    /\ capital = 0
    /\ portfolio_values = <<>>
    /\ trade_log = <<>>
    /\ active_trades = <<>>
    /\ prev_signal = 0
    /\ pc = "idle"
    /\ result = NoResult
    /\ last = NoStep

NextKalman ==
    \/ KfFetch /\ UNCHANGED btvars
    \/ KfPredict /\ UNCHANGED btvars
    \/ KfUpdate /\ UNCHANGED btvars
    \/ KfRecord /\ UNCHANGED btvars
    \/ KfReturn /\ UNCHANGED btvars

SpecKalman == InitKalman /\ [][NextKalman]_vars

TypeOK ==
    /\ pc \in {"loop", "done"}
    /\ prev_signal \in Signals
    /\ Len(portfolio_values) <= StepBound
    /\ capital \in Int
    /\ last.stepped => last.timestamp = Len(portfolio_values)

----------------------------------------------------------------------------
(* The quantities the properties speak of, written from their statements *)

\* the trades opened by the latest iteration
OpenedNow == {i \in 1..Len(active_trades) : active_trades[i].entry_time = last.timestamp}

\* the trades closed by the latest iteration
ClosedNow == {i \in 1..Len(trade_log) : trade_log[i].exit_time = last.timestamp}

\* entry cost of a trade of direction d at prices (dep, ind):
\* the bought leg at (1 + c), less the shorted leg at (1 - c)
EntryCost(d, dep, ind) ==
    d * n_shares * (dep - ind) * CommDen + commission * n_shares * (dep + ind)

\* exit proceeds of a trade of direction d at prices (dep, ind):
\* the sold leg at (1 - c), less the covered leg at (1 + c)
ExitProceeds(d, dep, ind) ==
    d * n_shares * (dep - ind) * CommDen - commission * n_shares * (dep + ind)

\* unrealized P&L of an open trade at prices (dep, ind): the long form, negated
\* for a short trade
OpenPnl(tr, dep, ind) ==
    tr.direction * ((dep - tr.dep_entry) * n_shares + (tr.ind_entry - ind) * n_shares)
    * CommDen

RECURSIVE OpenPnlUpTo(_)
OpenPnlUpTo(k) ==
    IF k = 0 THEN 0
    ELSE OpenPnl(active_trades[k], last.dep, last.ind) + OpenPnlUpTo(k - 1)

MarginFloor == margin_cap * CommDen

----------------------------------------------------------------------------
(* C1: after every step t of run_backtest, portfolio_value[t] equals the    *)
(* capital as it stands after the step plus the sum, over the trades still  *)
(* open, of their unrealized P&L at the step's prices, each from the        *)
(* trade's own entry prices (short: the negation of the long form).         *)
C1_PortfolioValue ==
    last.stepped =>
        /\ Len(portfolio_values) = last.timestamp
        /\ portfolio_values[last.timestamp]
               = capital + OpenPnlUpTo(Len(active_trades))

\* a short trade is held at prices that moved since its entry
C1_Witness ==
    /\ last.stepped
    /\ \E i \in 1..Len(active_trades) :
           /\ active_trades[i].direction = -1
           /\ active_trades[i].entry_time < last.timestamp
           /\ OpenPnl(active_trades[i], last.dep, last.ind) # 0

(* C2, as stated: a trade is opened only if capital before the deduction   *)
(* strictly exceeds entry_net and strictly exceeds margin_cap.              *)
C2_StrictEntryCost ==
    \A i \in OpenedNow :
        /\ last.cap_entry > EntryCost(last.sig, last.dep, last.ind)
        /\ last.cap_entry > MarginFloor

(* C2, amended: a trade is opened only if capital before the deduction is  *)
(* at least entry_net and strictly exceeds margin_cap; a trade is opened    *)
(* when capital equals entry_net.                                           *)
C2_EntryOnlyIfGuard ==
    \A i \in OpenedNow :
        /\ last.cap_entry >= EntryCost(last.sig, last.dep, last.ind)
        /\ last.cap_entry > MarginFloor

\* a trade was opened with capital equal to its entry cost
C2_Witness ==
    /\ OpenedNow # {}
    /\ last.cap_entry = EntryCost(last.sig, last.dep, last.ind)

(* C3, as stated: on every step that opens a trade, capital after the step  *)
(* is strictly smaller than before it, by exactly entry_net, and is still   *)
(* strictly greater than margin_cap.                                        *)
C3_DecreaseAboveMargin ==
    \A i \in OpenedNow :
        /\ capital < last.cap0
        /\ capital = last.cap0 - EntryCost(last.sig, last.dep, last.ind)
        /\ capital > MarginFloor

(* C3, amended: on every step that opens a trade, capital after the step    *)
(* equals capital before the step minus exactly entry_net (which is smaller *)
(* only if entry_net > 0), and capital before the deduction is strictly     *)
(* greater than margin_cap.                                                 *)
C3_DeductEntryNet ==
    \A i \in OpenedNow :
        /\ capital = last.cap0 - EntryCost(last.sig, last.dep, last.ind)
        /\ active_trades[i].entry_net = EntryCost(last.sig, last.dep, last.ind)
        /\ (capital < last.cap0) <=> (active_trades[i].entry_net > 0)
        /\ last.cap0 > MarginFloor

\* a short trade was opened at a positive entry_net, with a commission
C3_Witness ==
    \E i \in OpenedNow :
        /\ active_trades[i].direction = -1
        /\ active_trades[i].entry_net > 0
        /\ commission > 0
        /\ capital < last.cap0

(* C4, as stated: after every step each still-open trade has direction      *)
(* equal to that step's signal (a trade is closed when the signal is 0 or   *)
(* flips to the opposite sign).                                             *)
C4_ClosedOnAnyDeparture ==
    last.stepped =>
        \A i \in 1..Len(active_trades) : active_trades[i].direction = last.sig

(* C4, amended: on any step where a trade is open and the current signal is *)
(* 0, every open trade is closed on that step; on a step whose signal is    *)
(* not 0 (also one that flipped to the opposite sign) no trade is closed.   *)
C4_ClosedOnZero ==
    last.stepped =>
        /\ last.sig = 0 =>
               /\ active_trades = <<>>
               /\ Len(trade_log) = last.nlog0 + Len(last.act0)
               /\ \A k \in 1..Len(last.act0) :
                      /\ trade_log[last.nlog0 + k].entry_time = last.act0[k].entry_time
                      /\ trade_log[last.nlog0 + k].exit_time = last.timestamp
        /\ last.sig # 0 =>
               /\ ClosedNow = {}
               /\ \A k \in 1..Len(last.act0) : active_trades[k] = last.act0[k]

\* a trade was open when the signal came back to 0
C4_Witness ==
    /\ last.stepped
    /\ last.sig = 0
    /\ last.act0 # <<>>
    /\ ClosedNow # {}

\* the trades carried over from before the latest iteration
CarriedOver == {i \in 1..Len(active_trades) : active_trades[i].entry_time < last.timestamp}

(* C5, as stated: on every step where the signal is nonzero, no trade is    *)
(* open for that direction once the exit phase is done and capital passes   *)
(* the entry guard, a trade of that direction is opened - also when the     *)
(* previous signal was nonzero.                                             *)
C5_EntryOnAnyNonzero ==
    ( /\ last.stepped
      /\ last.sig # 0
      /\ \A i \in CarriedOver : active_trades[i].direction # last.sig
      /\ last.cap_entry > EntryCost(last.sig, last.dep, last.ind)
      /\ last.cap_entry > MarginFloor )
    => \E i \in OpenedNow : active_trades[i].direction = last.sig

(* C5, amended: on every step where the previous signal is 0 (or it is the  *)
(* first step), the current signal is nonzero and capital is at least       *)
(* entry_net and above margin_cap, a trade of the signal's direction is     *)
(* opened, at the step's prices; on a step whose previous signal is nonzero *)
(* (the opposite sign, or the same run after a rejected entry) none is.     *)
C5_EntryOnLeavingZero ==
    last.stepped =>
        /\ ( /\ last.prev = 0
             /\ last.sig # 0
             /\ last.cap_entry >= EntryCost(last.sig, last.dep, last.ind)
             /\ last.cap_entry > MarginFloor )
           => \E i \in OpenedNow :
                  /\ active_trades[i].direction = last.sig
                  /\ active_trades[i].dep_entry = last.dep
                  /\ active_trades[i].ind_entry = last.ind
        /\ last.prev # 0 => OpenedNow = {}

\* a short trade was opened on the step after a signal of 0, later than the
\* first step
C5_Witness ==
    /\ last.stepped
    /\ last.timestamp > 1
    /\ last.prev = 0
    /\ \E i \in OpenedNow : active_trades[i].direction = -1

(* C6, as stated: each time a trade is closed capital strictly increases.   *)
C6_CloseIncreasesCapital ==
    ClosedNow # {} => capital > last.cap0

RECURSIVE ProceedsOf(_)
ProceedsOf(S) ==
    IF S = {} THEN 0
    ELSE LET i == CHOOSE j \in S : TRUE
         IN  ExitProceeds(trade_log[i].direction, trade_log[i].dep_exit,
                          trade_log[i].ind_exit) + ProceedsOf(S \ {i})

(* C6, amended: each time a trade is closed, capital changes by exactly     *)
(* that trade's exit_net (which may be zero or negative); the trade is      *)
(* removed from the open collection and appended to the trade log exactly   *)
(* once, so total_trades equals the number of closings and no trade is      *)
(* logged twice or logged while still open.                                 *)
C6_CloseAddsExitNet ==
    /\ ClosedNow # {} =>
           /\ capital = last.cap0 + ProceedsOf(ClosedNow)
           /\ last.cap_entry = capital
    /\ last.stepped =>
           /\ Len(trade_log) = last.nlog0 + Cardinality(ClosedNow)
           /\ ClosedNow = {} \/ Cardinality(ClosedNow) = Len(last.act0)
    /\ \A i, j \in 1..Len(trade_log) :
           trade_log[i].entry_time = trade_log[j].entry_time => i = j
    /\ \A i \in 1..Len(trade_log), k \in 1..Len(active_trades) :
           trade_log[i].entry_time # active_trades[k].entry_time
    /\ result.returned => result.total_trades = Len(trade_log)

\* a second trade was closed, at a negative exit_net, and the run returned
C6_Witness ==
    /\ result.returned
    /\ result.total_trades = 2
    /\ \E i \in ClosedNow : capital < last.cap0

\* profit of a closed trade, from its direction, its prices and the commission
ProfitOf(tr) ==
    tr.direction * n_shares
        * ((tr.dep_exit - tr.dep_entry) - (tr.ind_exit - tr.ind_entry)) * CommDen
    - commission * n_shares
        * (tr.dep_entry + tr.ind_entry + tr.dep_exit + tr.ind_exit)

(* C7: for every closed trade of either direction d, profit =                *)
(* d*n_shares*((dep_x - dep_e) - (ind_x - ind_e))                            *)
(*   - c*n_shares*(dep_e + ind_e + dep_x + ind_x); with c = 0 it is the      *)
(* plain price-difference P&L, and the scenario's trade (entry 105/51 at the *)
(* second row, exit 95/48 at the fourth, 10 shares) has profit -70, less     *)
(* 0.01 * (entry notional + exit notional) with a commission of 0.01.        *)
C7_Profit ==
    /\ \A i \in 1..Len(trade_log) : trade_log[i].profit = ProfitOf(trade_log[i])
    /\ (source = "scenario" /\ Len(portfolio_values) = Len(ScenarioDep)) =>
           /\ Len(trade_log) = 1
           /\ trade_log[1].entry_time = 2 /\ trade_log[1].exit_time = 4
           /\ trade_log[1].dep_entry = 105 /\ trade_log[1].ind_entry = 51
           /\ trade_log[1].dep_exit = 95 /\ trade_log[1].ind_exit = 48
           /\ commission = 0 => trade_log[1].profit = -70 * CommDen
           /\ commission = 1 => trade_log[1].profit * 10 = -999 * CommDen
           /\ trade_log[1].profit
                  = -70 * CommDen - commission * (10 * (105 + 51) + 10 * (95 + 48))

\* a short trade was closed under a commission, at prices other than its
\* entry prices
C7_Witness ==
    /\ commission > 0
    /\ \E i \in ClosedNow :
           /\ trade_log[i].direction = -1
           /\ trade_log[i].dep_exit # trade_log[i].dep_entry
           /\ trade_log[i].ind_exit # trade_log[i].ind_entry

\* the scenario's trade was closed, under the commission of 0.01
C7_ScenarioClosed ==
    /\ source = "scenario"
    /\ commission = 1
    /\ Len(portfolio_values) = Len(ScenarioDep)
    /\ ClosedNow # {}

(* C8, as stated: win_rate lies in [0, 100] and is 0 exactly when            *)
(* total_trades is 0.                                                        *)
C8_ZeroIffNoTrades ==
    result.returned =>
        /\ 0 <= result.win_rate.num
        /\ result.win_rate.num <= 100 * result.win_rate.den
        /\ (result.win_rate.num = 0) <=> (result.total_trades = 0)

(* C8, amended: win_rate lies in [0, 100]; it is 0 when total_trades is 0,   *)
(* and it is 0 exactly when no closed trade has profit > 0 (so also after    *)
(* trades none of which won); otherwise it is 100 * winners / total_trades.  *)
C8_WinRate ==
    result.returned =>
        LET winners == {i \in 1..Len(trade_log) : ProfitOf(trade_log[i]) > 0}
        IN  /\ result.win_rate.den > 0
            /\ 0 <= result.win_rate.num
            /\ result.win_rate.num <= 100 * result.win_rate.den
            /\ result.total_trades = 0 => result.win_rate.num = 0
            /\ (result.win_rate.num = 0) <=> (winners = {})
            /\ result.total_trades > 0 =>
                   result.win_rate.num * result.total_trades
                      = 100 * Cardinality(winners) * result.win_rate.den

\* the run returned after trades were closed, none of them at a profit
C8_Witness ==
    /\ result.returned
    /\ result.total_trades > 0
    /\ result.win_rate.num = 0

(* C9: when the signal asks for an entry and the guard fails (capital not    *)
(* above margin_cap - in particular equal to it - or capital below the       *)
(* entry cost), no trade is opened on that step, capital and the open-trade  *)
(* collection are unchanged, and the step still records a portfolio value.   *)
C9_RejectedEntry ==
    ( /\ last.stepped
      /\ last.sig # 0
      /\ \/ last.cap_entry <= MarginFloor
         \/ last.cap_entry < EntryCost(last.sig, last.dep, last.ind) )
    => /\ OpenedNow = {}
       /\ capital = last.cap0
       /\ active_trades = last.act0
       /\ Len(portfolio_values) = last.timestamp
       /\ portfolio_values[last.timestamp] = capital + OpenPnlUpTo(Len(active_trades))

\* an entry was asked for with capital exactly at margin_cap and above the
\* entry cost
C9_Witness ==
    /\ last.stepped
    /\ last.prev = 0
    /\ last.sig # 0
    /\ last.cap_entry = MarginFloor
    /\ last.cap_entry > EntryCost(last.sig, last.dep, last.ind)
    /\ active_trades = <<>>

(* C10, as stated: on any step for which a normalized spread is supplied     *)
(* with |normalized_spread| < close_threshold, the signal is treated as 0    *)
(* whatever its nominal value: no trade is opened and any open trade is      *)
(* closed.                                                                   *)
C10_ForceFlat ==
    (last.stepped /\ last.has_ns /\ Abs(last.ns) < CloseThreshold) =>
        /\ OpenedNow = {}
        /\ active_trades = <<>>

(* C10, amended: when signals_df is the table generate_signals returns, the  *)
(* signal of a step with |normalized_spread| < 0.05 is 0, so no trade is     *)
(* opened on such a step and any open trade is closed on it; run_backtest    *)
(* itself reads only the 'Signal' column.                                    *)
C10_GeneratedFlat ==
    ( /\ last.stepped
      /\ source = "generated"
      /\ last.has_ns
      /\ Abs(last.ns) < CloseThreshold )
    => /\ last.sig = 0
       /\ OpenedNow = {}
       /\ active_trades = <<>>
       /\ Len(trade_log) = last.nlog0 + Len(last.act0)

\* a generated spread near 0 closed an open trade
C10_Witness ==
    /\ last.stepped
    /\ source = "generated"
    /\ Abs(last.ns) < CloseThreshold
    /\ last.act0 # <<>>
    /\ ClosedNow # {}

----------------------------------------------------------------------------
(* The estimates the properties speak of, written from their statements *)

\* the covariance after k pairs, each predicted and then updated once
RECURSIVE CovarianceAfter(_)
CovarianceAfter(k) ==
    IF k = 0 THEN <<>>
    ELSE CovarianceAfter(k - 1)
         \o <<[op |-> "predict", x |-> 0], [op |-> "update", x |-> x_series[k]]>>

\* the state after k pairs: the update of pair k uses the covariance predicted
\* once more since pair k - 1
RECURSIVE StateAfter(_)
StateAfter(k) ==
    IF k = 0 THEN <<>>
    ELSE Append(StateAfter(k - 1),
                [x |-> x_series[k], y |-> y_series[k],
                 P |-> Append(CovarianceAfter(k - 1), [op |-> "predict", x |-> 0])])

(* C11: run_kalman_filter takes the paired observations in order and, for   *)
(* each pair, calls predict() and then update() exactly once, predict       *)
(* before its update, no pair replayed or skipped; it records one hedge     *)
(* ratio per observation, the slope x[1] after that pair's update, so the   *)
(* output is as long as the input.                                          *)
C11_PredictThenUpdate ==
    /\ \A k \in 1..Len(kf_calls) :
           /\ kf_calls[k].pair = (k + 1) \div 2
           /\ kf_calls[k].fn = (IF k % 2 = 1 THEN "predict" ELSE "update")
           /\ kf_calls[k].x = x_series[(k + 1) \div 2]
           /\ kf_calls[k].y = y_series[(k + 1) \div 2]
    /\ Len(kf_calls) \in {2 * kf_i - 2, 2 * kf_i - 1, 2 * kf_i} \cap Nat
    /\ Len(hedge_ratios) \in {kf_i - 1, kf_i} \cap Nat
    /\ Len(hedge_ratios) = kf_i => Len(kf_calls) = 2 * kf_i
    /\ \A k \in 1..Len(hedge_ratios) :
           hedge_ratios[k] = [component |-> 1, of |-> StateAfter(k)]
    /\ kf_result.returned =>
           /\ kf_result.hedge_ratios = hedge_ratios
           /\ Len(kf_result.hedge_ratios) = Min(Len(x_series), Len(y_series))
           /\ Len(kf_calls) = 2 * Len(kf_result.hedge_ratios)
           /\ Len(x_series) = Len(y_series) =>
                  Len(kf_result.hedge_ratios) = Len(x_series)

\* the filter returned after three pairs, not all alike
C11_Witness ==
    /\ kf_result.returned
    /\ Len(x_series) = 3
    /\ Len(y_series) = 3
    /\ x_series[1] # x_series[2]
    /\ Len(kf_result.hedge_ratios) = 3
    /\ Len(kf_calls) = 6

(* C12: after any sequence of steps of run_backtest, for any signals over    *)
(* {-1, 0, +1} (a missing timestamp counting as 0), the open-trade           *)
(* collection holds at most one trade, and whenever it is not empty the      *)
(* previous step's signal is nonzero; an exit and an entry never both        *)
(* happen on the same step.                                                  *)
C12_SinglePosition ==
    /\ Len(active_trades) <= 1
    /\ active_trades # <<>> => (last.stepped /\ last.sig # 0 /\ prev_signal # 0)
    /\ ~(OpenedNow # {} /\ ClosedNow # {})
    /\ last.stepped => Cardinality(OpenedNow) + Cardinality(CarriedOver) <= 1

\* a trade is held through a flip of the signal, after an earlier trade was
\* closed
C12_Witness ==
    /\ trade_log # <<>>
    /\ Len(active_trades) = 1
    /\ CarriedOver # {}
    /\ last.sig = -active_trades[1].direction

RECURSIVE LoggedProfit(_)
LoggedProfit(k) ==
    IF k = 0 THEN 0 ELSE trade_log[k].profit + LoggedProfit(k - 1)

RECURSIVE OpenEntryNet(_)
OpenEntryNet(k) ==
    IF k = 0 THEN 0 ELSE active_trades[k].entry_net + OpenEntryNet(k - 1)

(* C13: after every step of run_backtest, capital = initial_capital + the    *)
(* sum of profit over the logged trades - the sum of entry_net over the      *)
(* trades still open, capital changing only on steps that open or close a    *)
(* trade; so on every step after which no trade is open portfolio_value[t]   *)
(* = initial_capital + the profits of the trades closed so far, and so is    *)
(* the returned final value when the run ends flat.                          *)
C13_CashConservation ==
    /\ capital = initial_capital * CommDen + LoggedProfit(Len(trade_log))
                 - OpenEntryNet(Len(active_trades))
    /\ \A i \in 1..Len(trade_log) : trade_log[i].profit = ProfitOf(trade_log[i])
    /\ (last.stepped /\ capital # last.cap0) => (OpenedNow # {} \/ ClosedNow # {})
    /\ (last.stepped /\ active_trades = <<>>) =>
           portfolio_values[last.timestamp]
              = initial_capital * CommDen + LoggedProfit(Len(trade_log))
    /\ (result.returned /\ active_trades = <<>>) =>
           result.final_capital
              = initial_capital * CommDen + LoggedProfit(Len(trade_log))

\* the run returned flat after two trades whose profits do not cancel
C13_Witness ==
    /\ result.returned
    /\ active_trades = <<>>
    /\ result.total_trades = 2
    /\ commission > 0
    /\ result.final_capital # initial_capital * CommDen

====
